---- MODULE Spec2Model ----
(***************************************************************************)
(* Discrete-event core of the eVTOL fleet simulation                       *)
(* (src/eVTOLSimulation.cpp, declarations in src/unnamed/part_000).        *)
(*                                                                         *)
(* Time values are the program's doubles (hours), represented exactly as   *)
(* integer ticks of 1/TicksPerHour hour; energyPerMile is kept in tenths   *)
(* and faultProbPerHour in hundredths, so that every quantity the catalog  *)
(* holds is an integer.  Arithmetic is the exact rational arithmetic the   *)
(* doubles approximate.                                                    *)
(***************************************************************************)
EXTENDS Integers, Sequences, FiniteSets, TLC

VARIABLES
    vehicleTypes,    \* Simulation::vehicleTypes, the catalog (fixed after load)
    vehicles,        \* Simulation::vehicles: vehicle id -> index into vehicleTypes
    numChargers,     \* size of activeChargers (NUM_CHARGERS of the build)
    eventQueue,      \* Simulation::eventQueue, the pending events
    chargingQueue,   \* Simulation::chargingQueue, FIFO of vehicle ids
    activeChargers,  \* Simulation::activeChargers: slot -> vehicle id or None
    stats,           \* Simulation::stats: company -> Stats, entries created lazily
    phase,           \* position of run(): "running", "printed" or "aborted"
    executed,        \* number of events run() has executed
    lastEvent,       \* the event run() executed last (NoEvent before the first)
    lastNow,         \* the value finishCharging read as `now` in the last step
    flightEnds,      \* company -> number of flight-completion events executed
    emptyReads,      \* number of times finishCharging read top() of an empty queue
    overtaken,       \* vehicles that stood behind a vehicle dropped from the line
    dropped,         \* vehicles tryCharging took off the line without a charger
    passDrops,       \* slots at which the last pass of tryCharging dropped a vehicle
    report           \* what printStats() has written (empty before it runs)

vars == << vehicleTypes, vehicles, numChargers, eventQueue, chargingQueue,
           activeChargers, stats, phase, executed, lastEvent, lastNow,
           flightEnds, emptyReads, overtaken, dropped, passDrops, report >>

----------------------------------------------------------------------------
(* Units and bounds *)

TicksPerHour == 17400
EnergyScale == 10
ProbScale == 100

SIM_DURATION == 3 * TicksPerHour

MaxVehicles == 3
LineVehicles == 6
MaxChargers == 2
MaxEvents == 20
SampleSteps == 4

None == 0
Infinity == 1000000

Companies == {"ALPHA", "BRAVO", "CHARLIE", "DELTA", "ECHO"}

----------------------------------------------------------------------------
(* The catalog *)

VT(c, speed, cap, charge, energy, pax, fault) ==
    [company |-> c, cruiseSpeed |-> speed, batteryCapacity |-> cap,
     timeToCharge |-> charge, energyPerMile |-> energy,
     passengerCount |-> pax, faultProbPerHour |-> fault]

loadVehicleTypes ==
    << VT("ALPHA",   120, 320, 10440, 16, 4, 25),
       VT("BRAVO",   100, 100,  3480, 15, 5, 10),
       VT("CHARLIE", 160, 220, 13920, 22, 3,  5),
       VT("DELTA",    90, 120, 10788,  8, 2, 22),
       VT("ECHO",     30, 150,  5220, 58, 2, 61) >>

\* The catalog of the end-to-end scenario: one type, the BRAVO profile with
\* fault rate 0.
ScenarioCatalog == << VT("BRAVO", 100, 100, 3480, 15, 5, 0) >>

\* A catalog of fault-free types: the source's first two, fault rate set to 0.
NoFaultCatalog ==
    [i \in 1..2 |-> [loadVehicleTypes[i] EXCEPT !.faultProbPerHour = 0]]

\* The source's types of shortest and of longest charge time (BRAVO, CHARLIE),
\* fault rate set to 0 (faults play no part in the waiting line).
LineCatalog ==
    << [loadVehicleTypes[2] EXCEPT !.faultProbPerHour = 0],
       [loadVehicleTypes[3] EXCEPT !.faultProbPerHour = 0] >>

\* One-type catalogs over speeds, capacities and energy uses of the source's
\* types, with the charge time of its first: among them the type of
\* testFlightDuration, the one of testDistancePerFlight (for their speed,
\* capacity and energy use) and types whose flight is longer than the horizon.
GridSpeeds == {30, 90, 100}
GridCapacities == {100, 120, 150}
GridEnergies == {8, 15, 58}

GridCatalogs ==
    { << VT("DELTA", s, c, 10440, e, 2, 0) >> :
          s \in GridSpeeds, c \in GridCapacities, e \in GridEnergies }

\* A catalog is a configuration input; these are the valid ones explored.
ValidCatalogs == { loadVehicleTypes, ScenarioCatalog, NoFaultCatalog }

\* Catalogs holding a type with non-positive cruise speed or energy use.
DegenerateCatalogs ==
    { << VT("BRAVO", 100, 100, 3480, 15, 5, 0), VT("ECHO", 0, 150, 5220, 58, 2, 0) >>,
      << VT("BRAVO", 100, 100, 3480, 15, 5, 0), VT("ECHO", -30, 150, 5220, 58, 2, 0) >>,
      << VT("BRAVO", 100, 100, 3480, 15, 5, 0), VT("ECHO", 30, 150, 5220, 0, 2, 0) >> }

CatalogValid(cat) ==
    \A i \in 1..Len(cat) : cat[i].cruiseSpeed > 0 /\ cat[i].energyPerMile > 0

----------------------------------------------------------------------------
(* Vehicle *)

TypeOf(v) == vehicleTypes[vehicles[v]]

\* Mutant of getFlightDuration: the divisor is a sum instead of a product.
getFlightDurationSum(t) ==
    (t.batteryCapacity * EnergyScale * TicksPerHour)
        \div (t.cruiseSpeed + t.energyPerMile)

\* batteryCapacity / (cruiseSpeed * energyPerMile), in ticks.  A zero divisor
\* gives the IEEE quotient of a positive capacity by zero, +infinity.
getFlightDuration(t) ==
    LET den == t.cruiseSpeed * t.energyPerMile
    IN  IF den = 0 THEN Infinity
        ELSE IF den > 0 THEN (t.batteryCapacity * EnergyScale * TicksPerHour) \div den
        ELSE 0 - ((t.batteryCapacity * EnergyScale * TicksPerHour) \div (0 - den))

\* cruiseSpeed * getFlightDuration(), in mile-ticks (miles * TicksPerHour).
getDistancePerFlight(t) == t.cruiseSpeed * getFlightDuration(t)

----------------------------------------------------------------------------
(* Events *)

FlightEndEvent(t, v, startTime, duration) ==
    [time |-> t, kind |-> "FlightEnd", v |-> v,
     startTime |-> startTime, duration |-> duration, chargerIndex |-> None]

\* startTime and duration are not captured by the closure of a charge-end
\* event; they record the currentTime and timeToCharge it was built from.
ChargeEndEvent(t, v, i, startTime, duration) ==
    [time |-> t, kind |-> "ChargeEnd", v |-> v,
     startTime |-> startTime, duration |-> duration, chargerIndex |-> i]

NoEvent ==
    [time |-> 0, kind |-> "None", v |-> None,
     startTime |-> 0, duration |-> 0, chargerIndex |-> None]

\* Event::operator> : events are ordered by time alone.
EventGreater(a, b) == a.time > b.time

\* The events priority_queue::top() may return: those no other event is
\* smaller than.  Which of several events of equal time is on top depends on
\* the heap's layout.
Top(q) == { e \in q : \A f \in q : ~EventGreater(e, f) }

TopTime(q) == (CHOOSE e \in Top(q) : TRUE).time

----------------------------------------------------------------------------
(* Stats *)

ZeroStats ==
    [totalFlightTime |-> 0, totalDistance |-> 0, totalChargeTime |-> 0,
     passengerMiles |-> 0, totalFlights |-> 0, totalCharges |-> 0,
     totalFaults |-> 0]

\* stats[c] of a std::map: the entry, value-initialised when absent.
StatsAt(st, c) == IF c \in DOMAIN st THEN st[c] ELSE ZeroStats

StatsPut(st, c, s) ==
    [x \in (DOMAIN st) \cup {c} |-> IF x = c THEN s ELSE st[x]]

\* dist01(rng) is sample/SampleSteps, a value of [0, 1).
Samples == 0..(SampleSteps - 1)

\* Mutant of faultOccurred: the comparison is <= instead of <.
faultOccurredLeq(sample, t, duration) ==
    sample * ProbScale * TicksPerHour <= t.faultProbPerHour * duration * SampleSteps

\* dist01(rng) < faultProbPerHour * duration
faultOccurred(sample, t, duration) ==
    sample * ProbScale * TicksPerHour < t.faultProbPerHour * duration * SampleSteps

\* What a division of doubles by a zero count yields (inf or NaN); every
\* total is non-negative, so the marker is no quotient of a non-zero count.
NaN == 0 - 1

\* total / count of printStats, a double divided by an int.
Quotient(total, count) == IF count = 0 THEN NaN ELSE total \div count

\* Mutant of average: the count is not tested before the division.
averageUnguarded(total, count) == Quotient(total, count)

\* (count ? total / count : 0)
average(total, count) == IF count # 0 THEN Quotient(total, count) ELSE 0

\* std::map<Company, int> vehicleCount of printStats: one entry for every
\* operator with a vehicle in the fleet.
vehicleCount(fleet, cat) ==
    [c \in { cat[fleet[v]].company : v \in 1..Len(fleet) } |->
        Cardinality({ v \in 1..Len(fleet) : cat[fleet[v]].company = c })]

\* The lines printStats writes: one block for every entry of the stats map.
statLines(st) ==
    [c \in DOMAIN st |->
        [avgFlightTime |-> average(st[c].totalFlightTime, st[c].totalFlights),
         avgDistance |-> average(st[c].totalDistance, st[c].totalFlights),
         avgChargeTime |-> average(st[c].totalChargeTime, st[c].totalCharges),
         totalFaults |-> st[c].totalFaults,
         passengerMiles |-> st[c].passengerMiles]]

NoReport == [lines |-> << >>, vehicleCount |-> << >>]

printStats(st) ==
    [lines |-> statLines(st), vehicleCount |-> vehicleCount(vehicles, vehicleTypes)]

----------------------------------------------------------------------------
(* The simulation's operations, as functions of its mutable members *)

Sim(q, cq, ac, st, ov, dr) ==
    [eventQueue |-> q, chargingQueue |-> cq, activeChargers |-> ac,
     stats |-> st, overtaken |-> ov, dropped |-> dr, passDrops |-> {}]

SeqRange(s) == { s[k] : k \in 1..Len(s) }

\* Mutant of scheduleFlight: the horizon check is missing.
scheduleFlightUnchecked(sim, v, startTime) ==
    LET flightDuration == getFlightDuration(TypeOf(v))
    IN  [sim EXCEPT !.eventQueue =
            @ \cup {FlightEndEvent(startTime + flightDuration, v,
                                   startTime, flightDuration)}]

scheduleFlight(sim, v, startTime) ==
    LET flightDuration == getFlightDuration(TypeOf(v))
    IN  IF startTime + flightDuration > SIM_DURATION THEN sim
        ELSE [sim EXCEPT !.eventQueue =
                  @ \cup {FlightEndEvent(startTime + flightDuration, v,
                                         startTime, flightDuration)}]

\* Mutant of chargeSlot: a slot is given without testing that it is idle.
chargeSlotAnySlot(sim, currentTime, i) ==
    IF sim.chargingQueue # << >>
    THEN LET v == Head(sim.chargingQueue)
             popped == [sim EXCEPT !.chargingQueue = Tail(@)]
             chargeEnd == currentTime + TypeOf(v).timeToCharge
         IN  IF chargeEnd > SIM_DURATION
             THEN [popped EXCEPT !.overtaken =
                       (@ \cup SeqRange(popped.chargingQueue)) \ {v}]
             ELSE [popped EXCEPT
                       !.activeChargers[i] = v,
                       !.eventQueue = @ \cup
                           {ChargeEndEvent(chargeEnd, v, i, currentTime,
                                           TypeOf(v).timeToCharge)}]
    ELSE sim

\* Mutant of chargeSlot: the vehicle given a slot is not taken off the line.
chargeSlotNoPop(sim, currentTime, i) ==
    IF sim.activeChargers[i] = None /\ sim.chargingQueue # << >>
    THEN LET v == Head(sim.chargingQueue)
             chargeEnd == currentTime + TypeOf(v).timeToCharge
         IN  IF chargeEnd > SIM_DURATION
             THEN [sim EXCEPT !.chargingQueue = Tail(@)]
             ELSE [sim EXCEPT
                       !.activeChargers[i] = v,
                       !.eventQueue = @ \cup
                           {ChargeEndEvent(chargeEnd, v, i, currentTime,
                                           TypeOf(v).timeToCharge)}]
    ELSE sim

\* Mutant of chargeSlot: the vehicle that arrived last is served first.
chargeSlotFromBack(sim, currentTime, i) ==
    IF sim.activeChargers[i] = None /\ sim.chargingQueue # << >>
    THEN LET n == Len(sim.chargingQueue)
             v == sim.chargingQueue[n]
             popped == [sim EXCEPT !.chargingQueue = SubSeq(@, 1, n - 1)]
             chargeEnd == currentTime + TypeOf(v).timeToCharge
         IN  IF chargeEnd > SIM_DURATION
             THEN popped
             ELSE [popped EXCEPT
                       !.activeChargers[i] = v,
                       !.eventQueue = @ \cup
                           {ChargeEndEvent(chargeEnd, v, i, currentTime,
                                           TypeOf(v).timeToCharge)}]
    ELSE sim

\* Mutant of chargeSlot: after a vehicle is dropped, the slot is offered to
\* the next vehicle of the line.
chargeSlotSkipAhead(sim, currentTime, i) ==
    IF sim.activeChargers[i] = None /\ sim.chargingQueue # << >>
    THEN LET v == Head(sim.chargingQueue)
             popped == [sim EXCEPT !.chargingQueue = Tail(@)]
             chargeEnd == currentTime + TypeOf(v).timeToCharge
             w == Head(popped.chargingQueue)
         IN  IF chargeEnd > SIM_DURATION
             THEN IF popped.chargingQueue # << >>
                       /\ currentTime + TypeOf(w).timeToCharge <= SIM_DURATION
                  THEN [popped EXCEPT
                            !.chargingQueue = Tail(@),
                            !.dropped = @ \cup {v},
                            !.passDrops = @ \cup {i},
                            !.activeChargers[i] = w,
                            !.eventQueue = @ \cup
                                {ChargeEndEvent(currentTime + TypeOf(w).timeToCharge,
                                                w, i, currentTime,
                                                TypeOf(w).timeToCharge)}]
                  ELSE [popped EXCEPT
                            !.dropped = @ \cup {v},
                            !.passDrops = @ \cup {i}]
             ELSE [popped EXCEPT
                       !.activeChargers[i] = v,
                       !.eventQueue = @ \cup
                           {ChargeEndEvent(chargeEnd, v, i, currentTime,
                                           TypeOf(v).timeToCharge)}]
    ELSE sim

\* Mutant of chargeSlot: the charge-completion event replaces the pending
\* events instead of joining them.
chargeSlotReplace(sim, currentTime, i) ==
    IF sim.activeChargers[i] = None /\ sim.chargingQueue # << >>
    THEN LET v == Head(sim.chargingQueue)
             popped == [sim EXCEPT !.chargingQueue = Tail(@)]
             chargeEnd == currentTime + TypeOf(v).timeToCharge
         IN  IF chargeEnd > SIM_DURATION
             THEN [popped EXCEPT
                       !.dropped = @ \cup {v},
                       !.passDrops = @ \cup {i}]
             ELSE [popped EXCEPT
                       !.activeChargers[i] = v,
                       !.eventQueue =
                           {ChargeEndEvent(chargeEnd, v, i, currentTime,
                                           TypeOf(v).timeToCharge)}]
    ELSE sim

\* The body of tryCharging's loop for slot i (slots are 1..numChargers here,
\* 0..NUM_CHARGERS-1 in the source).
chargeSlot(sim, currentTime, i) ==
    IF sim.activeChargers[i] = None /\ sim.chargingQueue # << >>
    THEN LET v == Head(sim.chargingQueue)
             popped == [sim EXCEPT !.chargingQueue = Tail(@)]
             chargeEnd == currentTime + TypeOf(v).timeToCharge
         IN  IF chargeEnd > SIM_DURATION
             THEN [popped EXCEPT
                       !.overtaken = (@ \cup SeqRange(popped.chargingQueue)) \ {v},
                       !.dropped = @ \cup {v},
                       !.passDrops = @ \cup {i}]
             ELSE [popped EXCEPT
                       !.activeChargers[i] = v,
                       !.eventQueue = @ \cup
                           {ChargeEndEvent(chargeEnd, v, i, currentTime,
                                           TypeOf(v).timeToCharge)}]
    ELSE sim

RECURSIVE tryChargingFrom(_, _, _)
tryChargingFrom(sim, currentTime, i) ==
    IF i > numChargers THEN sim
    ELSE tryChargingFrom(chargeSlot(sim, currentTime, i), currentTime, i + 1)

\* Mutant of tryCharging: the pass looks at the first slot only.
tryChargingFirstSlot(sim, currentTime) ==
    chargeSlot([sim EXCEPT !.passDrops = {}], currentTime, 1)

tryCharging(sim, currentTime) ==
    tryChargingFrom([sim EXCEPT !.passDrops = {}], currentTime, 1)

\* Mutant of recordFlight: the flight is not counted.
recordFlightUncounted(s, t, duration, sample) ==
    LET distance == getDistancePerFlight(t)
    IN  [s EXCEPT !.totalFlightTime = @ + duration,
                  !.totalDistance = @ + distance,
                  !.passengerMiles = @ + t.passengerCount * distance,
                  !.totalFaults = IF faultOccurred(sample, t, duration)
                                  THEN @ + 1 ELSE @]

recordFlight(s, t, duration, sample) ==
    LET distance == getDistancePerFlight(t)
    IN  [s EXCEPT !.totalFlightTime = @ + duration,
                  !.totalDistance = @ + distance,
                  !.totalFlights = @ + 1,
                  !.passengerMiles = @ + t.passengerCount * distance,
                  !.totalFaults = IF faultOccurred(sample, t, duration)
                                  THEN @ + 1 ELSE @]

processFlightEnd(sim, v, startTime, duration, sample) ==
    LET endTime == startTime + duration
        t == TypeOf(v)
    IN  IF endTime > SIM_DURATION THEN sim
        ELSE LET s == recordFlight(StatsAt(sim.stats, t.company), t, duration, sample)
                 pushed == [sim EXCEPT
                               !.stats = StatsPut(@, t.company, s),
                               !.chargingQueue = Append(@, v)]
             IN  tryCharging(pushed, endTime)

\* Mutant of recordCharge: the charge is counted twice.
recordChargeTwice(s, t) ==
    [s EXCEPT !.totalChargeTime = @ + t.timeToCharge,
              !.totalCharges = @ + 2]

recordCharge(s, t) ==
    [s EXCEPT !.totalChargeTime = @ + t.timeToCharge,
              !.totalCharges = @ + 1]

\* Mutant of finishCharging: the slot is not released.
finishChargingKeepSlot(sim, v, chargerIndex, now) ==
    LET t == TypeOf(v)
        s == recordCharge(StatsAt(sim.stats, t.company), t)
        kept == [sim EXCEPT
                    !.stats = StatsPut(@, t.company, s),
                    !.overtaken = @ \ {v}]
    IN  tryCharging(scheduleFlight(kept, v, now), now)

\* finishCharging after its first line; now is the value that line read.
finishCharging(sim, v, chargerIndex, now) ==
    LET t == TypeOf(v)
        s == recordCharge(StatsAt(sim.stats, t.company), t)
        freed == [sim EXCEPT
                     !.stats = StatsPut(@, t.company, s),
                     !.activeChargers[chargerIndex] = None,
                     !.overtaken = @ \ {v}]
    IN  tryCharging(scheduleFlight(freed, v, now), now)

\* What `eventQueue.top().time` can yield when the queue is empty: the read is
\* of storage that holds no event.  The value left there by the event just
\* popped (time t), a value below every event, a value beyond the horizon; or
\* the run is aborted (a checked build).
EmptyTopReads(t) == {0, t, SIM_DURATION + 1}

\* double now = eventQueue.top().time, evaluated after run() popped the event.
clockReads(q, t) == IF q # {} THEN {TopTime(q)} ELSE EmptyTopReads(t)

----------------------------------------------------------------------------
(* Construction *)

RECURSIVE createVehiclesFrom(_, _)
createVehiclesFrom(sim, v) ==
    IF v > Len(vehicles) THEN sim
    ELSE createVehiclesFrom(scheduleFlight(sim, v, 0), v + 1)

\* The fleets createVehicles can sample, up to the numbering of the vehicles:
\* a run of a fleet is the run of any reordering of it with the vehicle ids
\* renamed, since events of equal time are taken in any order.
Fleets(cat, maxSize) ==
    UNION { { f \in [1..n -> 1..Len(cat)] :
                \A i \in 1..n, j \in 1..n : i < j => f[i] <= f[j] } :
            n \in 1..maxSize }

InitWith(catalogs, maxSize) ==
    /\ vehicleTypes \in catalogs
    /\ vehicles \in Fleets(vehicleTypes, maxSize)
    /\ numChargers \in 1..MaxChargers
    /\ activeChargers = [i \in 1..numChargers |-> None]
    /\ chargingQueue = << >>
    /\ stats = << >>
    /\ eventQueue =
         createVehiclesFrom(Sim({}, << >>, activeChargers, << >>, {}, {}), 1).eventQueue
    /\ phase = "running"
    /\ executed = 0
    /\ lastEvent = NoEvent
    /\ lastNow = 0
    /\ flightEnds = [c \in Companies |-> 0]
    /\ emptyReads = 0
    /\ overtaken = {}
    /\ dropped = {}
    /\ passDrops = {}
    /\ report = NoReport

Init == InitWith(ValidCatalogs, MaxVehicles)

\* Catalogs that a load-time validation would have to reject are inputs too.
InitAnyCatalog == InitWith(ValidCatalogs \cup DegenerateCatalogs, MaxVehicles)

\* Fleets of one type drawn from the grid.
InitGrid == InitWith(GridCatalogs, MaxVehicles)

\* Larger fleets of two types, for contention in the waiting line.
InitLine == InitWith({LineCatalog}, LineVehicles)

----------------------------------------------------------------------------
(* run() *)

Config == << vehicleTypes, vehicles, numChargers >>

Install(sim) ==
    /\ eventQueue' = sim.eventQueue
    /\ chargingQueue' = sim.chargingQueue
    /\ activeChargers' = sim.activeChargers
    /\ stats' = sim.stats
    /\ overtaken' = sim.overtaken
    /\ dropped' = sim.dropped
    /\ passDrops' = sim.passDrops

\* The events run() may find on top, one for each class of events that differ
\* only in the id of vehicles of one type: such vehicles are interchangeable,
\* and taking the other one first gives the same run with the two ids swapped.
TopChoices(q) ==
    { e \in Top(q) :
        ~ \E f \in Top(q) :
            /\ f.v < e.v
            /\ vehicles[f.v] = vehicles[e.v]
            /\ [f EXCEPT !.v = e.v] = e
            /\ e.kind = "FlightEnd" }

LoopGuard(q) == q # {} /\ TopTime(q) <= SIM_DURATION

\* One iteration of run()'s loop whose event is a flight completion.
RunFlightEnd ==
    /\ phase = "running"
    /\ executed < MaxEvents
    /\ LoopGuard(eventQueue)
    /\ \E e \in TopChoices(eventQueue), sample \in Samples :
         /\ e.kind = "FlightEnd"
         /\ Install(processFlightEnd(
                Sim(eventQueue \ {e}, chargingQueue, activeChargers, stats, overtaken,
                    dropped),
                e.v, e.startTime, e.duration, sample))
         /\ lastEvent' = e
         /\ flightEnds' = [flightEnds EXCEPT ![TypeOf(e.v).company] = @ + 1]
    /\ executed' = executed + 1
    /\ lastNow' = 0
    /\ UNCHANGED << Config, phase, emptyReads, report >>

\* One iteration of run()'s loop whose event is a charge completion.
RunChargeEnd ==
    /\ phase = "running"
    /\ executed < MaxEvents
    /\ LoopGuard(eventQueue)
    /\ \E e \in TopChoices(eventQueue) :
         /\ e.kind = "ChargeEnd"
         /\ lastEvent' = e
         /\ emptyReads' = IF eventQueue \ {e} = {} THEN emptyReads + 1 ELSE emptyReads
         /\ \/ \E now \in clockReads(eventQueue \ {e}, e.time) :
                 /\ Install(finishCharging(
                        Sim(eventQueue \ {e}, chargingQueue, activeChargers, stats,
                            overtaken, dropped),
                        e.v, e.chargerIndex, now))
                 /\ lastNow' = now
                 /\ phase' = phase
            \/ /\ eventQueue \ {e} = {}
               /\ eventQueue' = {}
               /\ phase' = "aborted"
               /\ lastNow' = 0
               /\ passDrops' = {}
               /\ UNCHANGED << chargingQueue, activeChargers, stats, overtaken,
                               dropped >>
    /\ executed' = executed + 1
    /\ UNCHANGED << Config, flightEnds, report >>

\* The loop's exit and printStats().
PrintStats ==
    /\ phase = "running"
    /\ ~LoopGuard(eventQueue)
    /\ phase' = "printed"
    /\ report' = printStats(stats)
    /\ UNCHANGED << Config, eventQueue, chargingQueue, activeChargers, stats,
                    executed, lastEvent, lastNow, flightEnds, emptyReads,
                    overtaken, dropped, passDrops >>

Next == RunFlightEnd \/ RunChargeEnd \/ PrintStats

Spec == Init /\ [][Next]_vars

SpecAnyCatalog == InitAnyCatalog /\ [][Next]_vars

SpecLine == InitLine /\ [][Next]_vars

SpecGrid == InitGrid /\ [][Next]_vars

\* run() is a loop of one thread that nothing suspends: while an iteration or
\* the exit is possible, one is taken.
SpecLive == Init /\ [][Next]_vars /\ WF_vars(Next)

SpecLineLive == InitLine /\ [][Next]_vars /\ WF_vars(Next)

----------------------------------------------------------------------------
(* Shorthands for the claims *)

VehicleIds == 1..Len(vehicles)
Slots == 1..numChargers

Flying(v) == \E e \in eventQueue : e.kind = "FlightEnd" /\ e.v = v
Waiting(v) == v \in SeqRange(chargingQueue)
Charging(v) == \E i \in Slots : activeChargers[i] = v

StateCount(v) ==
    (IF Flying(v) THEN 1 ELSE 0) + (IF Waiting(v) THEN 1 ELSE 0)
        + (IF Charging(v) THEN 1 ELSE 0)

IsSuffix(s, t) ==
    /\ Len(s) <= Len(t)
    /\ s = SubSeq(t, Len(t) - Len(s) + 1, Len(t))

----------------------------------------------------------------------------
(* C1 *)

\* C1: when a charge-completion event with timestamp t fires, finishCharging
\* uses now = t: the vehicle's next flight starts at t (its completion event is
\* at t + flightDuration) and the matching pass runs at t, so every charge it
\* starts begins at t.  Stated for the runs in which top() was never read on
\* an empty queue, where the value read is defined.
C1_ChargeEndUsesEventTime ==
    (lastEvent.kind = "ChargeEnd" /\ phase = "running" /\ emptyReads = 0) =>
        /\ lastNow = lastEvent.time
        /\ \A f \in eventQueue :
              (f.kind = "FlightEnd" /\ f.v = lastEvent.v) =>
                  /\ f.startTime = lastEvent.time
                  /\ f.time = lastEvent.time + getFlightDuration(TypeOf(f.v))

----------------------------------------------------------------------------
(* C2 *)

Scenario ==
    /\ vehicleTypes = ScenarioCatalog
    /\ Len(vehicles) = 1
    /\ numChargers = 1

ScenarioFlight == getFlightDuration(ScenarioCatalog[1])
ScenarioCharge == ScenarioCatalog[1].timeToCharge
ScenarioCycle == ScenarioFlight + ScenarioCharge

\* C2: in the end-to-end scenario (horizon 3.0, one charger, one vehicle of the
\* fault-free BRAVO profile) the run completes exactly 3 flights and 3 charges,
\* flights ending at 0.667, 1.533, 2.4 and charges at 0.867, 1.733, 2.6, and
\* the run ends normally after them.
C2_ScenarioThreeCycles ==
    Scenario =>
        /\ phase # "aborted"
        /\ lastEvent.kind = "FlightEnd" =>
              lastEvent.time \in { ScenarioFlight + k * ScenarioCycle : k \in 0..2 }
        /\ lastEvent.kind = "ChargeEnd" =>
              lastEvent.time \in { (k + 1) * ScenarioCycle : k \in 0..2 }
        /\ phase = "printed" =>
              /\ executed = 6
              /\ StatsAt(stats, "BRAVO").totalFlights = 3
              /\ StatsAt(stats, "BRAVO").totalCharges = 3

----------------------------------------------------------------------------
(* C3 *)

\* C3: every pending event has a timestamp within the horizon, the event run()
\* executed last has one too, and the flight or charge it completed satisfies
\* startTime + duration <= horizon.
C3_HorizonContainment ==
    /\ \A e \in eventQueue :
          e.time <= SIM_DURATION /\ e.startTime + e.duration <= SIM_DURATION
    /\ lastEvent.time <= SIM_DURATION
    /\ lastEvent.startTime + lastEvent.duration <= SIM_DURATION

\* A run that has ended with a vehicle's next flight refused for the horizon.
C3_Witness ==
    /\ phase = "printed"
    /\ executed >= 4
    /\ lastEvent.kind = "ChargeEnd"
    /\ lastNow + getFlightDuration(TypeOf(lastEvent.v)) > SIM_DURATION
    /\ ~Flying(lastEvent.v)

----------------------------------------------------------------------------
(* C4 *)

PendingCharges == { e \in eventQueue : e.kind = "ChargeEnd" }

\* C4: no vehicle occupies two slots, the vehicles with a charge in progress
\* are never more than the pool size, and a slot is given only when idle: the
\* vehicle of every charge in progress still holds the slot it was given.
C4_ChargerExclusivity ==
    /\ \A i \in Slots, j \in Slots :
          (i # j /\ activeChargers[i] # None) => activeChargers[i] # activeChargers[j]
    /\ Cardinality({ e.v : e \in PendingCharges }) <= numChargers
    /\ Cardinality(PendingCharges) <= numChargers
    /\ \A e \in PendingCharges : activeChargers[e.chargerIndex] = e.v

\* Every slot of a pool of two is taken while a vehicle waits.
C4_Witness ==
    /\ numChargers = 2
    /\ \A i \in Slots : activeChargers[i] # None
    /\ chargingQueue # << >>

----------------------------------------------------------------------------
(* C5 *)

----------------------------------------------------------------------------
(* C6 *)

\* C6 as stated: a vehicle is never assigned a charger after a vehicle that
\* stood ahead of it in the waiting line left the line without one (in the
\* runs in which top() was never read on an empty queue).
C6_NoOvertaking ==
    emptyReads = 0 => \A i \in Slots : activeChargers[i] \notin overtaken

\* C6: the waiting line is served from its head only: in every step the new
\* line is a suffix of the old one (with the arriving vehicle appended), and
\* the vehicles given a charger in the step are among those taken off it.
C6_FifoDequeue ==
    [][ \E arrived \in { << >> } \cup { << v >> : v \in VehicleIds } :
           LET line == chargingQueue \o arrived
           IN  /\ IsSuffix(chargingQueue', line)
               /\ \A i \in Slots :
                     (activeChargers'[i] # None /\ activeChargers'[i] # activeChargers[i])
                         => activeChargers'[i] \in
                              SeqRange(SubSeq(line, 1, Len(line) - Len(chargingQueue')))
      ]_vars

\* A vehicle holds a charger it was given after the vehicle ahead of it was
\* dropped from the line.
C6_Witness ==
    /\ emptyReads = 0
    /\ Len(chargingQueue) >= 1
    /\ \E i \in Slots : activeChargers[i] \in overtaken

----------------------------------------------------------------------------
(* C7 *)

\* C7: events are executed in non-decreasing timestamp order: no pending
\* event is earlier than the event run() executed last, which covers the
\* events that the executed action itself scheduled.
C7_NonDecreasingOrder ==
    (executed > 0 /\ phase # "aborted") =>
        \A e \in eventQueue : e.time >= lastEvent.time

----------------------------------------------------------------------------
(* C8 *)

DegenerateType(t) == t.cruiseSpeed <= 0 \/ t.energyPerMile <= 0

\* C8: with a catalog holding a type of non-positive cruise speed or energy
\* use, no event is ever executed, the run does not end normally, and no
\* flight of a vehicle of such a type is ever pending.
C8_DegenerateCatalogRejected ==
    ~CatalogValid(vehicleTypes) =>
        /\ executed = 0
        /\ phase # "printed"
        /\ \A e \in eventQueue : ~DegenerateType(TypeOf(e.v))

----------------------------------------------------------------------------
(* C9 *)

StatsFields ==
    {"totalFlightTime", "totalDistance", "totalChargeTime", "passengerMiles",
     "totalFlights", "totalCharges", "totalFaults"}

\* C9 (first part): across every step, every Stats field of every operator is
\* non-decreasing, and (second part) the flight count of an operator is, after
\* every step and so at the end of the run, the number of flight-completion
\* events executed for its vehicles.
C9_MonotonicStats ==
    [][ /\ \A c \in Companies, f \in StatsFields :
              StatsAt(stats', c)[f] >= StatsAt(stats, c)[f]
        /\ \A c \in Companies : StatsAt(stats', c).totalFlights = flightEnds'[c]
      ]_vars

\* A finished run in which two operators completed flights, one of them
\* several, and a charge was completed.
C9_Witness ==
    /\ phase = "printed"
    /\ \E c \in DOMAIN stats, d \in DOMAIN stats :
          /\ c # d
          /\ stats[c].totalFlights >= 2
          /\ stats[c].totalCharges >= 1
          /\ stats[d].totalFlights >= 1
          /\ flightEnds[c] = stats[c].totalFlights

----------------------------------------------------------------------------
(* C10 *)

NoFaultRates ==
    \A i \in 1..Len(vehicleTypes) : vehicleTypes[i].faultProbPerHour = 0

\* C10: if every type of the catalog has fault rate 0, every operator's fault
\* count is 0 in every reachable state, whatever the samples drawn.
C10_NoFaultsAtRateZero ==
    NoFaultRates => \A c \in Companies : StatsAt(stats, c).totalFaults = 0

\* A finished run of a fault-free catalog with flights of two operators.
C10_Witness ==
    /\ NoFaultRates
    /\ phase = "printed"
    /\ Cardinality(DOMAIN stats) >= 2
    /\ \A c \in DOMAIN stats : stats[c].totalFlights >= 1 /\ stats[c].totalFaults = 0

----------------------------------------------------------------------------
(* C11 *)

\* The simulations run() can be in after executing the charge completion e.
ChargeEndOutcomes(e) ==
    { finishCharging(
          Sim(eventQueue \ {e}, chargingQueue, activeChargers, stats, overtaken,
              dropped),
          e.v, e.chargerIndex, now) : now \in clockReads(eventQueue \ {e}, e.time) }

\* C11: the run is a function of the fleet and of the fault samples: whenever
\* run() is about to execute an event, the event on top of the queue (which of
\* several events of equal time that is, is fixed by the heap's layout) has
\* one outcome only: the same pending events, waiting line, slots and Stats,
\* and no second way for the run to go on.
C11_Deterministic ==
    (phase = "running" /\ executed < MaxEvents /\ LoopGuard(eventQueue)) =>
        \A e \in TopChoices(eventQueue) :
            e.kind = "ChargeEnd" =>
                /\ Cardinality(ChargeEndOutcomes(e)) = 1
                /\ eventQueue \ {e} # {}

----------------------------------------------------------------------------
(* C12 *)

----------------------------------------------------------------------------
(* C13 *)

\* capacity * EnergyScale * TicksPerHour: the capacity in the units in which
\* duration (ticks) * speed * energy use (tenths) is expressed.
ScaledCapacity(t) == t.batteryCapacity * EnergyScale * TicksPerHour

\* x is C/(S*E) in ticks, to within the one tick of the time unit.
IsFlightDuration(x, t) ==
    /\ x * t.cruiseSpeed * t.energyPerMile <= ScaledCapacity(t)
    /\ ScaledCapacity(t) < (x + 1) * t.cruiseSpeed * t.energyPerMile

\* d is C/E in mile-ticks, to within the distance flown in one tick.
IsDistance(d, t) ==
    /\ d * t.energyPerMile <= ScaledCapacity(t)
    /\ ScaledCapacity(t) < (d + t.cruiseSpeed) * t.energyPerMile

Fields(t) == << t.cruiseSpeed, t.batteryCapacity, t.energyPerMile >>

\* C13: for every type with C > 0, S > 0, E > 0, the duration of every flight
\* scheduleFlight schedules is C/(S*E), and the distance processFlightEnd
\* records for every flight is S times that duration, which is C/E, computed
\* from the fields of the vehicle's own type; (S=100, C=100, E=1.5) gives
\* duration 2/3 hour and (S=90, C=120, E=0.8) gives distance 150 miles.
C13_DerivedValues ==
    /\ \A e \in eventQueue :
          e.kind = "FlightEnd" =>
              /\ e.duration = getFlightDuration(TypeOf(e.v))
              /\ IsFlightDuration(e.duration, TypeOf(e.v))
              /\ Fields(TypeOf(e.v)) = << 100, 100, 15 >> =>
                    3 * e.duration = 2 * TicksPerHour
    /\ \A i \in 1..Len(vehicleTypes) :
          LET t == vehicleTypes[i]
          IN  (t.cruiseSpeed > 0 /\ t.batteryCapacity > 0 /\ t.energyPerMile > 0) =>
                /\ IsFlightDuration(getFlightDuration(t), t)
                /\ getDistancePerFlight(t) = t.cruiseSpeed * getFlightDuration(t)
                /\ IsDistance(getDistancePerFlight(t), t)
    /\ \A i \in 1..Len(vehicleTypes) :
          LET t == vehicleTypes[i]
              s == StatsAt(stats, t.company)
          IN  s.totalFlights > 0 =>
                /\ s.totalDistance =
                       s.totalFlights * t.cruiseSpeed * getFlightDuration(t)
                /\ s.totalFlightTime = s.totalFlights * getFlightDuration(t)
                /\ Fields(t) = << 90, 120, 8 >> =>
                      s.totalDistance = s.totalFlights * 150 * TicksPerHour

\* A flight of the type (S=90, C=120, E=0.8) has been recorded while a flight
\* of another vehicle of the type is pending.
C13_Witness ==
    /\ Fields(vehicleTypes[1]) = << 90, 120, 8 >>
    /\ StatsAt(stats, vehicleTypes[1].company).totalFlights >= 1
    /\ \E e \in eventQueue : e.kind = "FlightEnd"

----------------------------------------------------------------------------
(* C14 *)

\* The operators with a vehicle in the fleet.
FleetOperators == { TypeOf(v).company : v \in VehicleIds }

\* The averages of line l are those of the totals s, each total/count when
\* the count is positive and 0 otherwise, and none is the result of a
\* division by zero.
AveragesOf(l, s) ==
    /\ l.avgFlightTime # NaN /\ l.avgDistance # NaN /\ l.avgChargeTime # NaN
    /\ l.avgFlightTime = IF s.totalFlights > 0
                          THEN s.totalFlightTime \div s.totalFlights ELSE 0
    /\ l.avgDistance = IF s.totalFlights > 0
                        THEN s.totalDistance \div s.totalFlights ELSE 0
    /\ l.avgChargeTime = IF s.totalCharges > 0
                          THEN s.totalChargeTime \div s.totalCharges ELSE 0

\* C14 as stated: when the final statistics are computed, every operator with
\* vehicles in the fleet gets its averages, each total/count when the count is
\* positive and the value 0 otherwise.
C14_AveragesForEveryOperator ==
    phase = "printed" =>
        \A c \in FleetOperators :
            /\ c \in DOMAIN report.lines
            /\ AveragesOf(report.lines[c], StatsAt(stats, c))

\* C14: when the final statistics are computed no division by a zero count is
\* executed: averages are computed for the operators with a Stats entry, which
\* are those with a completed flight, each total/count when the count is
\* positive and 0 otherwise; an operator with no recorded flight gets none.
C14_AveragesDefined ==
    /\ phase # "printed" => report = NoReport
    /\ phase = "printed" =>
          /\ DOMAIN report.lines = { c \in Companies : flightEnds[c] > 0 }
          /\ \A c \in DOMAIN report.lines :
                /\ stats[c].totalFlights > 0
                /\ AveragesOf(report.lines[c], stats[c])
          /\ DOMAIN report.vehicleCount = FleetOperators

\* The statistics were computed for an operator that completed flights but
\* no charge.
C14_Witness ==
    /\ phase = "printed"
    /\ \E c \in DOMAIN report.lines :
          /\ stats[c].totalFlights > 0
          /\ stats[c].totalCharges = 0
          /\ report.lines[c].avgChargeTime = 0
          /\ report.lines[c].avgFlightTime = getFlightDuration(vehicleTypes[1])

----------------------------------------------------------------------------
(* C15 *)

\* The currentTime of the matching pass of the event executed last:
\* processFlightEnd passes endTime, finishCharging the value it read as now.
PassTime == IF lastEvent.kind = "FlightEnd" THEN lastEvent.time ELSE lastNow

\* C15: a vehicle dequeued for an idle slot whose charge would overrun the
\* horizon is dropped for the rest of the run: it is not in the waiting line,
\* holds no slot and has no pending event; and after the pass every slot at
\* which the pass dropped a vehicle is idle, so no later vehicle of the line
\* was given that slot in the pass.
C15_DroppedForGood ==
    /\ \A v \in dropped :
          /\ ~Waiting(v)
          /\ ~Charging(v)
          /\ \A e \in eventQueue : e.v # v
    /\ \A i \in passDrops : activeChargers[i] = None
    /\ \A e \in PendingCharges : e.chargerIndex \notin passDrops

\* A vehicle was dropped by an earlier pass and is in none of the states; the
\* run went on, and the pass of the event executed last, which dropped none,
\* gave a slot to a vehicle that stood behind it (no read of an empty queue
\* took part).
C15_Witness ==
    /\ emptyReads = 0
    /\ passDrops = {}
    /\ \E v \in dropped : StateCount(v) = 0
    /\ \E e \in PendingCharges : e.v \in overtaken /\ e.startTime = PassTime

----------------------------------------------------------------------------
(* C16 *)

\* C16 as stated: after every matching pass no slot is idle while the waiting
\* line holds a vehicle whose charge, started at the time of the pass, would
\* end within the horizon (in the runs in which top() was never read on an
\* empty queue).
C16_NoIdleSlotWhileServable ==
    (executed > 0 /\ phase # "aborted" /\ emptyReads = 0) =>
        \A i \in Slots :
            activeChargers[i] = None =>
                \A v \in SeqRange(chargingQueue) :
                    PassTime + TypeOf(v).timeToCharge > SIM_DURATION

\* C16: after every matching pass, a slot is idle while a vehicle waits only
\* if the pass dropped a vehicle at that slot; the slots at which it dropped
\* none are taken or the line is empty.
C16_IdleOnlyAfterDrop ==
    phase # "aborted" =>
        \A i \in Slots :
            (activeChargers[i] = None /\ i \notin passDrops) => chargingQueue = << >>

\* After a pass a slot is idle, the pass having dropped a vehicle at it, while
\* a vehicle whose charge would end within the horizon still waits.
C16_Witness ==
    /\ emptyReads = 0
    /\ phase = "running"
    /\ \E i \in passDrops, v \in SeqRange(chargingQueue) :
          /\ activeChargers[i] = None
          /\ PassTime + TypeOf(v).timeToCharge <= SIM_DURATION

----------------------------------------------------------------------------
(* C17 *)

\* C17: no cancellation and no re-firing: an event leaves the queue only by
\* being executed, the step that executes it removes it and does not push it
\* again, every other pending event stays pending across the step, nothing
\* leaves the queue in a step that executes no event, when the loop of run()
\* has ended no event is left unexecuted, and while events are pending the
\* queue is eventually emptied, which only executing them can do (or the run
\* is as long as the runs explored).
C17_FireOnce ==
    /\ [][ /\ executed' = executed + 1 =>
                 /\ lastEvent' \in eventQueue
                 /\ lastEvent' \notin eventQueue'
                 /\ (eventQueue \ {lastEvent'}) \subseteq eventQueue'
           /\ executed' = executed => eventQueue' = eventQueue
           /\ phase' = "printed" => eventQueue' = {}
         ]_vars
    /\ (eventQueue # {}) ~> (eventQueue = {} \/ executed >= MaxEvents)

\* A run of several flights and charges has ended with every event executed,
\* while events of equal time and events pushed during the run were pending,
\* and top() was never read on an empty queue.
C17_Witness ==
    /\ phase = "printed"
    /\ emptyReads = 0
    /\ eventQueue = {}
    /\ executed >= 6
    /\ lastEvent.kind = "FlightEnd"
    /\ \E c \in DOMAIN stats : stats[c].totalCharges >= 1

----------------------------------------------------------------------------
(* C18 *)

\* C18: whenever finishCharging reads eventQueue.top(), the queue is
\* non-empty: no run ever reads top() of an empty queue, and no
\* charge-completion event is on top of the queue as its only event.
C18_TopReadOnNonEmpty ==
    /\ emptyReads = 0
    /\ \A e \in Top(eventQueue) : e.kind = "ChargeEnd" => eventQueue \ {e} # {}

----------------------------------------------------------------------------
(* C19 *)

EventsOf(v) == { e \in eventQueue : e.v = v }

\* C19: between two event executions, each vehicle has at most one pending
\* event; slot i is occupied by vehicle v if and only if exactly one
\* charge-completion event for (v, i) is pending; and a vehicle with a pending
\* flight-completion event is neither in the waiting line nor in a slot.
C19_EventsAgreeWithAllocator ==
    phase # "aborted" =>
        /\ \A v \in VehicleIds : Cardinality(EventsOf(v)) <= 1
        /\ \A v \in VehicleIds, i \in Slots :
              activeChargers[i] = v <=>
                  Cardinality({ e \in PendingCharges :
                                  e.v = v /\ e.chargerIndex = i }) = 1
        /\ \A v \in VehicleIds : Flying(v) => (~Waiting(v) /\ ~Charging(v))

\* Two charges that end at different times are in progress in the two slots
\* while another vehicle flies, its flight scheduled by a charge completion.
C19_Witness ==
    /\ numChargers = 2
    /\ \E e \in PendingCharges, f \in PendingCharges :
          e.time < f.time /\ e.chargerIndex # f.chargerIndex
    /\ \E g \in eventQueue : g.kind = "FlightEnd" /\ g.startTime > 0

----------------------------------------------------------------------------
(* C20 *)

Total(field) ==
    StatsAt(stats, "ALPHA")[field] + StatsAt(stats, "BRAVO")[field]
        + StatsAt(stats, "CHARLIE")[field] + StatsAt(stats, "DELTA")[field]
        + StatsAt(stats, "ECHO")[field]

\* C20: for every operator the fault count and the charge count are at most
\* the flight count, and over the fleet the charges completed plus the
\* vehicles charging or waiting are at most the flights completed.
C20_CountersConsistent ==
    /\ \A c \in Companies :
          /\ StatsAt(stats, c).totalFaults <= StatsAt(stats, c).totalFlights
          /\ StatsAt(stats, c).totalCharges <= StatsAt(stats, c).totalFlights
    /\ Total("totalCharges")
          + Cardinality({ v \in VehicleIds : Charging(v) \/ Waiting(v) })
          <= Total("totalFlights")

\* Every flight of an operator with several flights had a fault, a charge was
\* completed, and every flight completed is accounted for by a completed
\* charge or a vehicle that charges or waits.
C20_Witness ==
    /\ \E c \in DOMAIN stats :
          /\ stats[c].totalFlights >= 2
          /\ stats[c].totalFaults = stats[c].totalFlights
          /\ stats[c].totalCharges = stats[c].totalFlights - 1
    /\ chargingQueue # << >>
    /\ Total("totalCharges")
          + Cardinality({ v \in VehicleIds : Charging(v) \/ Waiting(v) })
          = Total("totalFlights")

====
